---------------------------- MODULE Spec2Model ----------------------------
(* A model of pyani/run_sge.py: the JobGroup class (script generation for *)
(* parameter sweeps, dependency lists, completion polling) and the module *)
(* functions that flatten a job graph and submit it to SGE.               *)
EXTENDS Integers, Sequences, FiniteSets, TLC

(**************************************************************************)
(* Bounds of the model.                                                   *)
(**************************************************************************)
\* most names in an arguments mapping
MaxArgs == 3
\* most values in one argument's list
MaxVals == 3
\* most dependencies the jobs of a submission have between them
MaxEdges == 2
\* most entries in the list of jobs handed to build_and_submit_jobs
MaxList == 3
\* most dependencies the jobs of a job graph have between them
MaxGraphEdges == 4
\* most root jobs in the list handed to run_dependency_graph
MaxRoots == 2
\* the deepest the interpreter lets calls nest (sys.getrecursionlimit())
RecursionLimit == 6
\* the most calls of build_directories on one root directory
MaxBuilds == 2

\* names an arguments mapping may use, in the order the dict iterates them
KeyNames == <<"a", "b", "c", "d", "e">>

VARIABLES
  arguments,   \* JobGroup.arguments, as the sequence of (key, values) pairs in
               \* the dict's iteration order
  script,      \* JobGroup.script, as the sequence of its statements
  tasks,       \* JobGroup.tasks
  shell,       \* the bash process running the script for one array task
  results      \* what each finished array task ran its command with

VARIABLES
  dependencies, \* JobGroup.dependencies of every job: a list of jobs
  submitted,    \* JobGroup.submitted of every job
  queue,        \* JobGroup.queue of every job
  scriptPath,   \* the jobs that have the attribute scriptPath
  dirs,         \* the directories that exist: the root and its subdirectories
  files,        \* the script files that exist under root/jobs
  plain,        \* the paths among them that exist and are no directory
  builds,       \* the number of calls of build_directories that returned
  pc,           \* where the calling flow is
  error,        \* the exception that ended the flow, if any
  passed,       \* what build_and_submit_jobs was called with as jobs
  jobs,         \* build_and_submit_jobs' list of jobs
  waiting,      \* submit_jobs' list of jobs still to be done
  submittable,  \* submit_jobs' current wavefront
  todo,         \* the jobs of the wavefront submit_safe_jobs has yet to take
  qsub,         \* the qsub commands run so far, in order, with their outcome
  caller,       \* who called build_and_submit_jobs
  jobgraph,     \* run_dependency_graph's list of root jobs
  logger,       \* whether run_dependency_graph was given a logger
  jobset,       \* run_dependency_graph's flattened set of jobs
  joblist,      \* run_dependency_graph's list of jobs
  dep_count,    \* run_dependency_graph's count of dependencies
  awaited,      \* the jobs whose wait() has been called
  interval,     \* JobGroup.wait's polling interval
  sleeps,       \* the time.sleep calls JobGroup.wait has made, in order
  polls,        \* the outcomes of the qstat calls JobGroup.wait has made
  heap,         \* the dict objects there are: the names each one holds
  ref,          \* JobGroup.arguments of every JobGroup: a dict object
  own           \* the names each JobGroup was given or has set itself

scriptVars == <<arguments, script, tasks, shell, results>>

jobVars == <<dependencies, submitted, queue, scriptPath>>

fsVars == <<dirs, files, plain, builds>>

submitVars == <<passed, jobs, waiting, submittable, todo, qsub>>

graphVars == <<caller, jobgraph, logger, jobset, joblist, dep_count>>

waitVars == <<awaited, interval, sleeps, polls>>

objVars == <<heap, ref, own>>

vars == <<arguments, script, tasks, shell, results,
          dependencies, submitted, queue, scriptPath, dirs, files,
          plain, builds, pc, error, passed, jobs, waiting, submittable, todo, qsub,
          caller, jobgraph, logger, jobset, joblist, dep_count,
          awaited, interval, sleeps, polls, heap, ref, own>>

\* build_and_submit_jobs has not been called
NotCalled == [type |-> "none", value |-> <<>>]

(**************************************************************************)
(* JobGroup.generate_script                                               *)
(**************************************************************************)
\* the value at (zero-based) position p of the list of argument key
Val(key, p) == <<key, p>>

\* an argument of the mapping: a name and a list of k values
Argument(key, k) == [key |-> key, values |-> [p \in 1..k |-> Val(key, p - 1)]]

\* the arguments mappings a caller may pass: up to MaxArgs names, each with a
\* list of 0..MaxVals values (the constructor checks neither)
ArgumentMappings ==
  UNION { { [i \in 1..n |-> Argument(KeyNames[i], ks[i])] :
              ks \in [1..n -> 0..MaxVals] } : n \in 0..MaxArgs }

Statement(op, key, count, values) ==
  [op |-> op, key |-> key, count |-> count, values |-> values]

\* line 59: let "TASK_ID=$SGE_TASK_ID - 1"
TaskIdLine == Statement("let_task_id", "", 0, <<>>)

\* lines 63-69: one array definition, key_ARRAY=( v1 v2 ... )
ArrayLine(arg) == Statement("array", arg.key, Len(arg.values), arg.values)

\* lines 62-70: the array definitions, in the order of arguments.keys()
ArrayLines(args) == [i \in 1..Len(args) |-> ArrayLine(args[i])]

\* DecodeKey without line 78: the task index is never divided
DecodeKeyNoDivide(arg) ==
  << Statement("let_index", arg.key, Len(arg.values), <<>>),
     Statement("select", arg.key, 0, <<>>) >>

\* DecodeKey with nothing to decode for a key that has one value
DecodeKeySkipsSingle(arg) ==
  IF Len(arg.values) = 1 THEN <<>>
  ELSE << Statement("let_index", arg.key, Len(arg.values), <<>>),
          Statement("select", arg.key, 0, <<>>),
          Statement("let_div", arg.key, Len(arg.values), <<>>) >>

\* lines 75-78: the three decoding statements of one key
DecodeKey(arg) ==
  << Statement("let_index", arg.key, Len(arg.values), <<>>),
     Statement("select", arg.key, 0, <<>>),
     Statement("let_div", arg.key, Len(arg.values), <<>>) >>

RECURSIVE DecodeLinesReversed(_)
\* DecodeLines with the keys taken in the opposite order to the array lines
DecodeLinesReversed(args) ==
  IF args = <<>> THEN <<>>
  ELSE DecodeLinesReversed(Tail(args)) \o DecodeKey(Head(args))

RECURSIVE DecodeLines(_)
\* lines 74-78: the decoding logic, in the order of arguments.keys()
DecodeLines(args) ==
  IF args = <<>> THEN <<>>
  ELSE DecodeKey(Head(args)) \o DecodeLines(Tail(args))

\* line 82: the command
CommandLine == Statement("command", "", 0, <<>>)

RECURSIVE TotalAdds(_)
\* Total with line 70 adding the lengths instead of multiplying them
TotalAdds(args) ==
  IF args = <<>> THEN 1
  ELSE Len(Head(args).values) + TotalAdds(Tail(args))

RECURSIVE Total(_)
\* lines 56, 70: total = 1, then total *= len(values) for every key
Total(args) ==
  IF args = <<>> THEN 1
  ELSE Len(Head(args).values) * Total(Tail(args))

\* lines 55-83: the statements of the script (blank lines left out)
ScriptOf(args) ==
  <<TaskIdLine>> \o ArrayLines(args) \o DecodeLines(args) \o <<CommandLine>>

\* the dict objects of the module and of a caller: the {} of line 23, made
\* once when the def statement runs, and the dict a caller has made
DictObjects == {"default", "caller"}

\* the JobGroups a caller may construct with arguments
Groups == {"G", "H", "K"}

\* no JobGroup has been constructed with arguments
NoObjects ==
  /\ heap = [o \in DictObjects |-> {}]
  /\ ref = [g \in Groups |-> "None"]
  /\ own = [g \in Groups |-> {}]

NoShell ==
  [pc |-> 0, SGE_TASK_ID |-> 0, TASK_ID |-> 0,
   ARRAY |-> <<>>, INDEX |-> <<>>, VAR |-> <<>>]

\* lines 51-86
generate_script ==
  /\ shell.pc = 0
  /\ script' = ScriptOf(arguments)
  /\ tasks' = Total(arguments)
  /\ results' = <<>>
  /\ UNCHANGED <<arguments, shell>>
  /\ UNCHANGED <<jobVars, fsVars, submitVars, pc, error, graphVars, waitVars>>
  /\ UNCHANGED objVars

(**************************************************************************)
(* The script as SGE runs it: one bash process per array task, with       *)
(* SGE_TASK_ID in 1 .. tasks.  The tasks share nothing, so the model runs *)
(* them one after the other, in the order of their ids.                   *)
(**************************************************************************)
StartTask ==
  /\ script # <<>>
  /\ shell.pc = 0
  /\ Len(results) < tasks
  /\ shell' = [NoShell EXCEPT !.pc = 1, !.SGE_TASK_ID = Len(results) + 1]
  /\ UNCHANGED <<arguments, script, tasks, results>>
  /\ UNCHANGED <<jobVars, fsVars, submitVars, pc, error, graphVars, waitVars>>
  /\ UNCHANGED objVars

\* bash's ${NAME_ARRAY[i]}: the element at zero-based position i, or the
\* empty string when there is none
Element(arr, i) == IF i + 1 \in DOMAIN arr THEN arr[i + 1] ELSE <<>>

\* Exec with line 59 taking SGE_TASK_ID as it is, without the - 1
ExecTaskIdFromOne(sh, st) ==
  CASE st.op = "let_task_id" ->
         [sh EXCEPT !.TASK_ID = sh.SGE_TASK_ID, !.pc = @ + 1]
    [] st.op = "array" ->
         [sh EXCEPT !.ARRAY = (st.key :> st.values) @@ @, !.pc = @ + 1]
    [] st.op = "let_index" ->
         [sh EXCEPT !.INDEX = (st.key :> (sh.TASK_ID % st.count)) @@ @,
                    !.pc = @ + 1]
    [] st.op = "select" ->
         [sh EXCEPT !.VAR = (st.key :> Element(sh.ARRAY[st.key],
                                               sh.INDEX[st.key])) @@ @,
                    !.pc = @ + 1]
    [] st.op = "let_div" ->
         [sh EXCEPT !.TASK_ID = sh.TASK_ID \div st.count, !.pc = @ + 1]

\* the shell after it has run statement st
Exec(sh, st) ==
  CASE st.op = "let_task_id" ->
         [sh EXCEPT !.TASK_ID = sh.SGE_TASK_ID - 1, !.pc = @ + 1]
    [] st.op = "array" ->
         [sh EXCEPT !.ARRAY = (st.key :> st.values) @@ @, !.pc = @ + 1]
    [] st.op = "let_index" ->
         [sh EXCEPT !.INDEX = (st.key :> (sh.TASK_ID % st.count)) @@ @,
                    !.pc = @ + 1]
    [] st.op = "select" ->
         [sh EXCEPT !.VAR = (st.key :> Element(sh.ARRAY[st.key],
                                               sh.INDEX[st.key])) @@ @,
                    !.pc = @ + 1]
    [] st.op = "let_div" ->
         [sh EXCEPT !.TASK_ID = sh.TASK_ID \div st.count, !.pc = @ + 1]

ExecStatement ==
  /\ shell.pc \in 1..Len(script)
  /\ script[shell.pc].op # "command"
  /\ shell' = Exec(shell, script[shell.pc])
  /\ UNCHANGED <<arguments, script, tasks, results>>
  /\ UNCHANGED <<jobVars, fsVars, submitVars, pc, error, graphVars, waitVars>>
  /\ UNCHANGED objVars

\* the command runs with the variables the decoding has set
ExecCommand ==
  /\ shell.pc \in 1..Len(script)
  /\ script[shell.pc].op = "command"
  /\ results' = Append(results, [id |-> shell.SGE_TASK_ID,
                                  index |-> shell.INDEX,
                                  var |-> shell.VAR,
                                  residual |-> shell.TASK_ID])
  /\ shell' = NoShell
  /\ UNCHANGED <<arguments, script, tasks>>
  /\ UNCHANGED <<jobVars, fsVars, submitVars, pc, error, graphVars, waitVars>>
  /\ UNCHANGED objVars

\* no job, no directory and no calling flow: the script is studied alone
NoJobs ==
  /\ dependencies = <<>>
  /\ submitted = <<>>
  /\ queue = <<>>
  /\ scriptPath = {}
  /\ dirs = {}
  /\ files = {}
  /\ plain = {}
  /\ builds = 0
  /\ pc = "script"
  /\ error = "none"
  /\ passed = NotCalled
  /\ jobs = <<>>
  /\ waiting = <<>>
  /\ submittable = {}
  /\ todo = {}
  /\ qsub = <<>>
  /\ caller = "main"
  /\ jobgraph = <<>>
  /\ logger = FALSE
  /\ jobset = {}
  /\ joblist = <<>>
  /\ dep_count = 0
  /\ awaited = {}
  /\ interval = 0
  /\ sleeps = <<>>
  /\ polls = <<>>

InitScript ==
  /\ arguments \in ArgumentMappings
  /\ script = <<>>
  /\ tasks = 0
  /\ shell = NoShell
  /\ results = <<>>
  /\ NoJobs
  /\ NoObjects

NextScript ==
  \/ generate_script
  \/ StartTask
  \/ ExecStatement
  \/ ExecCommand

SpecScript == InitScript /\ [][NextScript]_vars

(**************************************************************************)
(* JobGroups and their dependency lists                                   *)
(**************************************************************************)
\* the JobGroup objects of a submission; a job's name is its identity
Jobs == {"A", "B", "C"}

\* the order in which the model writes the jobs of a list
JobNames == <<"A", "B", "C", "D">>

None == "None"

Range(seq) == {seq[i] : i \in DOMAIN seq}

RECURSIVE SumLen(_, _)
SumLen(deps, js) ==
  IF js = {} THEN 0
  ELSE LET j == CHOOSE j \in js : TRUE
       IN  Len(deps[j]) + SumLen(deps, js \ {j})

\* the number of dependency references there are
Edges == SumLen(dependencies, DOMAIN dependencies)

\* lines 42-47: the fields of the JobGroups js right after construction
Constructed(js) ==
  /\ dependencies = [j \in js |-> <<>>]
  /\ submitted = [j \in js |-> TRUE]
  /\ queue \in [js -> {None, "long"}]
  /\ scriptPath = {}

\* lines 89-95
add_dependency(self, job) ==
  /\ pc = "main"
  /\ Edges < MaxEdges
  /\ dependencies' = [dependencies EXCEPT ![self] = Append(@, job)]
  /\ UNCHANGED <<submitted, queue, scriptPath, fsVars, submitVars, pc, error>>
  /\ UNCHANGED <<scriptVars, objVars, graphVars, waitVars>>

\* list.remove(x): the list without the first x
RemoveFirst(seq, x) ==
  LET i == CHOOSE i \in DOMAIN seq :
             seq[i] = x /\ \A k \in 1..(i - 1) : seq[k] # x
  IN  SubSeq(seq, 1, i - 1) \o SubSeq(seq, i + 1, Len(seq))

\* lines 98-103, the job being in the list
remove_dependency(self, job) ==
  /\ pc = "main"
  /\ job \in Range(dependencies[self])
  /\ dependencies' = [dependencies EXCEPT ![self] = RemoveFirst(@, job)]
  /\ UNCHANGED <<submitted, queue, scriptPath, fsVars, submitVars, pc, error>>
  /\ UNCHANGED <<scriptVars, objVars, graphVars, waitVars>>

\* lines 98-103, the job not being in the list: list.remove raises
remove_dependency_absent(self, job) ==
  /\ pc = "main"
  /\ job \notin Range(dependencies[self])
  /\ pc' = "raised"
  /\ error' = "ValueError"
  /\ UNCHANGED <<jobVars, fsVars, submitVars>>
  /\ UNCHANGED <<scriptVars, objVars, graphVars, waitVars>>

(**************************************************************************)
(* build_and_submit_jobs                                                  *)
(**************************************************************************)
Subdirectories == {"output", "stderr", "stdout", "jobs"}

JobOrder(j) == CHOOSE i \in DOMAIN JobNames : JobNames[i] = j

\* the lists of jobs a caller hands over: a job may be missing from the
\* list or be in it more than once.  Nothing the code does depends on the
\* order of the list, so the model writes each list in one order only.
JobLists ==
  UNION { { l \in [1..n -> Jobs] :
              \A i \in 1..(n - 1) : JobOrder(l[i]) <= JobOrder(l[i + 1]) } :
          n \in 0..MaxList }

\* what is passed as jobs: a list of JobGroups or one JobGroup
ListOfJobs(list) == [type |-> "list", value |-> list]
OneJob(job) == [type |-> "JobGroup", value |-> job]

\* lines 304-305
AsList(arg) == IF arg.type # "list" THEN <<arg.value>> ELSE arg.value

\* build_and_submit_jobs going from line 305 to line 310
BuildAndSubmitSkipsBuilding(arg) ==
  /\ pc = "main"
  /\ passed' = arg
  /\ jobs' = AsList(arg)
  /\ pc' = "submit_jobs"
  /\ UNCHANGED <<jobVars, fsVars, waiting, submittable, todo, qsub, error>>
  /\ UNCHANGED <<scriptVars, objVars, graphVars, waitVars>>

\* lines 304-305, then line 308 is next
build_and_submit_jobs(arg) ==
  /\ pc = "main"
  /\ passed' = arg
  /\ jobs' = AsList(arg)
  /\ pc' = "build_directories"
  /\ UNCHANGED <<jobVars, fsVars, waiting, submittable, todo, qsub, error>>
  /\ UNCHANGED <<scriptVars, objVars, graphVars, waitVars>>

\* lines 202-203: the subdirectories in the order they are made in
directories == <<"output", "stderr", "stdout", "jobs">>

\* os.path.exists(path), in the file system fs
Exists(fs, path) == path \in fs.dirs \cup fs.plain

\* os.mkdir(path): OSError when the path exists or when what it is to be
\* made in is no directory (the root directory is made in a directory)
Mkdir(fs, path) ==
  IF Exists(fs, path) \/ (path # "root" /\ "root" \notin fs.dirs)
  THEN [fs EXCEPT !.raised = TRUE]
  ELSE [fs EXCEPT !.dirs = @ \cup {path}]

\* os.mkdir without the test of os.path.exists
MkdirAlways(fs, path) == Mkdir(fs, path)

\* lines 198-199 and 204: the path is made if it does not exist
MkdirIfAbsent(fs, path) ==
  IF ~Exists(fs, path) THEN Mkdir(fs, path) ELSE fs

RECURSIVE MkdirEach(_, _, _)
\* line 204: the list comprehension, from position i on
MkdirEach(fs, paths, i) ==
  IF i > Len(paths) \/ fs.raised THEN fs
  ELSE MkdirEach(MkdirIfAbsent(fs, paths[i]), paths, i + 1)

\* lines 186-204 in the file system fs
BuildDirectories(fs) ==
  MkdirEach(MkdirIfAbsent(fs, "root"), directories, 1)

\* the file system as build_directories finds it
FileSystem == [dirs |-> dirs, plain |-> plain, raised |-> FALSE]

\* line 308: build_directories called by build_and_submit_jobs, returning
build_directories ==
  /\ pc = "build_directories"
  /\ ~BuildDirectories(FileSystem).raised
  /\ dirs' = BuildDirectories(FileSystem).dirs
  /\ builds' = builds + 1
  /\ pc' = "build_job_scripts"
  /\ UNCHANGED <<jobVars, files, plain, submitVars, error>>
  /\ UNCHANGED <<scriptVars, objVars, graphVars, waitVars>>

\* lines 207-219: every job's script is written to root/jobs/<name> (file
\* is the Python 2 builtin)
build_job_scripts ==
  /\ pc = "build_job_scripts"
  /\ files' = files \cup Range(jobs)
  /\ scriptPath' = scriptPath \cup Range(jobs)
  /\ pc' = "submit_jobs"
  /\ UNCHANGED <<dependencies, submitted, queue, dirs, plain, builds>>
  /\ UNCHANGED <<submitVars, error>>
  /\ UNCHANGED <<scriptVars, objVars, graphVars, waitVars>>

\* line 282
submit_jobs ==
  /\ pc = "submit_jobs"
  /\ waiting' = jobs
  /\ pc' = "while"
  /\ UNCHANGED <<jobVars, fsVars, passed, jobs, submittable, todo, qsub, error>>
  /\ UNCHANGED <<scriptVars, objVars, graphVars, waitVars>>

\* lines 233-234: the dependencies of job whose submitted flag is False
Unsatisfied(job) ==
  Cardinality({ i \in DOMAIN dependencies[job] :
                  submitted[dependencies[job][i]] = FALSE })

\* what the comment at lines 229-231 says: a job without dependencies is
\* left out
ExtractJobsWithDependencies(waitlist) ==
  { job \in Range(waitlist) :
      Len(dependencies[job]) > 0 /\ 0 = Unsatisfied(job) }

\* lines 222-237
extract_submittable_jobs(waitlist) ==
  { job \in Range(waitlist) : 0 = Unsatisfied(job) }

\* lines 284-288: the loop goes round once more
submit_jobs_loop ==
  /\ pc = "while"
  /\ Len(waiting) > 0
  /\ submittable' = extract_submittable_jobs(waiting)
  /\ todo' = submittable'
  /\ pc' = "submit_safe_jobs"
  /\ UNCHANGED <<jobVars, fsVars, passed, jobs, waiting, qsub, error>>
  /\ UNCHANGED <<scriptVars, objVars, graphVars, waitVars>>

RECURSIVE HoldNames(_, _)
\* lines 264-265: dep.name + "," for every dependency, from position i on
HoldNames(deps, i) ==
  IF i > Len(deps) THEN <<>>
  ELSE <<deps[i], ",">> \o HoldNames(deps, i + 1)

\* line 266 left out: the comma after the last name stays
HoldListKeepsComma(job) ==
  IF Len(dependencies[job]) > 0
  THEN <<"-hold_jid ">> \o HoldNames(dependencies[job], 1)
  ELSE <<>>

\* lines 262-266: what the dependencies add to args, as the pieces it is
\* put together from; args[:-1] takes the last comma off
HoldList(job) ==
  IF Len(dependencies[job]) > 0
  THEN LET args == <<"-hold_jid ">> \o HoldNames(dependencies[job], 1)
       IN  SubSeq(args, 1, Len(args) - 1)
  ELSE <<>>

\* lines 248-272 for one job: list(submittable) is in no particular order;
\* os.system runs qsub (pyani_config.QSUB_DEFAULT), which accepts the job
\* or not, and its status is dropped
submit_safe_job(job, accepted) ==
  /\ pc = "submit_safe_jobs"
  /\ job \in todo
  /\ queue[job] = None
  /\ qsub' = Append(qsub, [job |-> job, hold |-> HoldList(job),
                            accepted |-> accepted])
  /\ submitted' = [submitted EXCEPT ![job] = TRUE]
  /\ todo' = todo \ {job}
  /\ UNCHANGED <<dependencies, queue, scriptPath, fsVars, passed, jobs, waiting,
                 submittable, pc, error>>
  /\ UNCHANGED <<scriptVars, objVars, graphVars, waitVars>>

\* line 257 for a job with a queue: the module has no local_queues
submit_safe_job_queue(job) ==
  /\ pc = "submit_safe_jobs"
  /\ job \in todo
  /\ queue[job] # None
  /\ pc' = "raised"
  /\ error' = "NameError"
  /\ UNCHANGED <<jobVars, fsVars, submitVars>>
  /\ UNCHANGED <<scriptVars, objVars, graphVars, waitVars>>

RECURSIVE RemoveAll(_, _)
\* lines 290-291: waiting.remove(job) for every job of the wavefront
RemoveAll(seq, js) ==
  IF js = {} THEN seq
  ELSE LET j == CHOOSE j \in js : TRUE
       IN  RemoveAll(RemoveFirst(seq, j), js \ {j})

\* lines 290-291, and back to the loop test
submit_jobs_remove ==
  /\ pc = "submit_safe_jobs"
  /\ todo = {}
  /\ waiting' = RemoveAll(waiting, submittable)
  /\ pc' = "while"
  /\ UNCHANGED <<jobVars, fsVars, passed, jobs, submittable, todo, qsub, error>>
  /\ UNCHANGED <<scriptVars, objVars, graphVars, waitVars>>

\* line 284, nothing waiting: submit_jobs and build_and_submit_jobs return,
\* to line 169 when run_dependency_graph made the call
submit_jobs_return ==
  /\ pc = "while"
  /\ Len(waiting) = 0
  /\ pc' = IF caller = "run_dependency_graph" THEN "wait_jobs" ELSE "returned"
  /\ UNCHANGED <<jobVars, fsVars, submitVars, error>>
  /\ UNCHANGED <<scriptVars, objVars, graphVars, waitVars>>

(**************************************************************************)
(* JobGroup.wait                                                          *)
(**************************************************************************)
\* line 109
InitialInterval == 5

\* lines 106-113, called for a job of the list once the list has been
\* submitted, as line 171 does.  The module imports defaultdict, pyani_config and os
\* (lines 14-18) and binds no name time: the first time.sleep, at line 111,
\* raises NameError before any sleep or any qstat.
wait(self) ==
  /\ pc = "returned"
  /\ self \in Range(jobs)
  /\ awaited' = awaited \cup {self}
  /\ interval' = InitialInterval
  /\ pc' = "raised"
  /\ error' = "NameError"
  /\ UNCHANGED <<sleeps, polls>>
  /\ UNCHANGED <<jobVars, fsVars, submitVars, scriptVars, objVars, graphVars>>

NoScript ==
  /\ arguments = <<>>
  /\ script = <<>>
  /\ tasks = 0
  /\ shell = NoShell
  /\ results = <<>>

NoGraphRun ==
  /\ caller = "main"
  /\ jobgraph = <<>>
  /\ logger = FALSE
  /\ jobset = {}
  /\ joblist = <<>>
  /\ dep_count = 0

NoWait ==
  /\ awaited = {}
  /\ interval = 0
  /\ sleeps = <<>>
  /\ polls = <<>>

Init ==
  /\ Constructed(Jobs)
  /\ dirs = {}
  /\ files = {}
  /\ plain = {}
  /\ builds = 0
  /\ pc = "main"
  /\ error = "none"
  /\ passed = NotCalled
  /\ jobs = <<>>
  /\ waiting = <<>>
  /\ submittable = {}
  /\ todo = {}
  /\ qsub = <<>>
  /\ NoGraphRun
  /\ NoWait
  /\ NoScript
  /\ NoObjects

Next ==
  \/ \E self, job \in Jobs : add_dependency(self, job)
  \/ \E self, job \in Jobs : remove_dependency(self, job)
  \/ \E self, job \in Jobs : remove_dependency_absent(self, job)
  \/ \E list \in JobLists : build_and_submit_jobs(ListOfJobs(list))
  \/ \E job \in Jobs : build_and_submit_jobs(OneJob(job))
  \/ build_directories
  \/ build_job_scripts
  \/ submit_jobs
  \/ submit_jobs_loop
  \/ \E job \in Jobs, accepted \in BOOLEAN : submit_safe_job(job, accepted)
  \/ \E job \in Jobs : submit_safe_job_queue(job)
  \/ submit_jobs_remove
  \/ submit_jobs_return
  \/ \E self \in Jobs : wait(self)

Spec == Init /\ [][Next]_vars

(**************************************************************************)
(* extract_submittable_jobs on jobs with any submitted flags              *)
(**************************************************************************)
\* lines 222-237, called on its own with the list of jobs waitlist
extract_submittable_jobs_call(waitlist) ==
  /\ pc = "main"
  /\ waiting' = waitlist
  /\ submittable' = extract_submittable_jobs(waitlist)
  /\ pc' = "extracted"
  /\ UNCHANGED <<jobVars, fsVars, passed, jobs, todo, qsub, error>>
  /\ UNCHANGED <<scriptVars, objVars, graphVars, waitVars>>

\* the jobs as a caller may hand them over: the submitted flag is an
\* attribute anyone can set, and it is True or False
InitExtract ==
  /\ dependencies = [j \in Jobs |-> <<>>]
  /\ submitted \in [Jobs -> BOOLEAN]
  /\ queue = [j \in Jobs |-> None]
  /\ scriptPath = {}
  /\ dirs = {}
  /\ files = {}
  /\ plain = {}
  /\ builds = 0
  /\ pc = "main"
  /\ error = "none"
  /\ passed = NotCalled
  /\ jobs = <<>>
  /\ waiting = <<>>
  /\ submittable = {}
  /\ todo = {}
  /\ qsub = <<>>
  /\ NoGraphRun
  /\ NoWait
  /\ NoScript
  /\ NoObjects

NextExtract ==
  \/ \E self, job \in Jobs : add_dependency(self, job)
  \/ \E waitlist \in JobLists : extract_submittable_jobs_call(waitlist)

SpecExtract == InitExtract /\ [][NextExtract]_vars

(**************************************************************************)
(* build_directories on a root directory that may exist                   *)
(**************************************************************************)
Paths == {"root"} \cup Subdirectories

\* lines 186-204, called on its own, returning
build_directories_call ==
  /\ pc = "main"
  /\ builds < MaxBuilds
  /\ ~BuildDirectories(FileSystem).raised
  /\ dirs' = BuildDirectories(FileSystem).dirs
  /\ builds' = builds + 1
  /\ UNCHANGED <<files, plain, pc, error>>
  /\ UNCHANGED <<jobVars, submitVars, scriptVars, objVars, graphVars, waitVars>>

\* lines 186-204, called on its own, an os.mkdir raising
build_directories_raise ==
  /\ pc = "main"
  /\ builds < MaxBuilds
  /\ BuildDirectories(FileSystem).raised
  /\ dirs' = BuildDirectories(FileSystem).dirs
  /\ pc' = "raised"
  /\ error' = "OSError"
  /\ UNCHANGED <<files, plain, builds>>
  /\ UNCHANGED <<jobVars, submitVars, scriptVars, objVars, graphVars, waitVars>>

\* the root directory is missing, or is a file, or is a directory in which
\* each of the four names is missing, a directory, or a file
InitDirs ==
  /\ dirs \in SUBSET Paths
  /\ plain \in SUBSET Paths
  /\ dirs \cap plain = {}
  /\ "root" \notin dirs => (dirs = {} /\ plain \subseteq {"root"})
  /\ files = {}
  /\ builds = 0
  /\ dependencies = <<>>
  /\ submitted = <<>>
  /\ queue = <<>>
  /\ scriptPath = {}
  /\ pc = "main"
  /\ error = "none"
  /\ passed = NotCalled
  /\ jobs = <<>>
  /\ waiting = <<>>
  /\ submittable = {}
  /\ todo = {}
  /\ qsub = <<>>
  /\ NoGraphRun
  /\ NoWait
  /\ NoScript
  /\ NoObjects

NextDirs ==
  \/ build_directories_call
  \/ build_directories_raise

SpecDirs == InitDirs /\ [][NextDirs]_vars

(**************************************************************************)
(* JobGroup.arguments and the dict objects it refers to                   *)
(**************************************************************************)
\* the names a dict may hold
ArgNames == {"a", "b"}

\* the constructor called without arguments
Omitted == "omitted"

\* line 23: the dict the parameter arguments is bound to
ArgumentsObject(given) == IF given = Omitted THEN "default" ELSE given

\* lines 23 and 47: self.arguments is the dict object itself
JobGroup_init(self, given) ==
  /\ pc = "main"
  /\ ref[self] = "None"
  /\ ref' = [ref EXCEPT ![self] = ArgumentsObject(given)]
  /\ own' = [own EXCEPT ![self] = heap[ArgumentsObject(given)]]
  /\ UNCHANGED heap
  /\ UNCHANGED <<jobVars, fsVars, submitVars, pc, error>>
  /\ UNCHANGED <<scriptVars, graphVars, waitVars>>

\* the caller's d[key] = values on the dict it has made
caller_sets(key) ==
  /\ pc = "main"
  /\ key \notin heap["caller"]
  /\ heap' = [heap EXCEPT !["caller"] = @ \cup {key}]
  /\ UNCHANGED <<ref, own>>
  /\ UNCHANGED <<jobVars, fsVars, submitVars, pc, error>>
  /\ UNCHANGED <<scriptVars, graphVars, waitVars>>

\* self.arguments[key] = values, on the dict line 47 has stored
arguments_set(self, key) ==
  /\ pc = "main"
  /\ ref[self] # "None"
  /\ key \notin heap[ref[self]]
  /\ heap' = [heap EXCEPT ![ref[self]] = @ \cup {key}]
  /\ own' = [own EXCEPT ![self] = @ \cup {key}]
  /\ UNCHANGED ref
  /\ UNCHANGED <<jobVars, fsVars, submitVars, pc, error>>
  /\ UNCHANGED <<scriptVars, graphVars, waitVars>>

\* the {} of line 23 is empty, the caller's dict holds any names
InitAlias ==
  /\ heap \in { [default |-> {}, caller |-> names] : names \in SUBSET ArgNames }
  /\ ref = [g \in Groups |-> "None"]
  /\ own = [g \in Groups |-> {}]
  /\ dependencies = <<>>
  /\ submitted = <<>>
  /\ queue = <<>>
  /\ scriptPath = {}
  /\ dirs = {}
  /\ files = {}
  /\ plain = {}
  /\ builds = 0
  /\ pc = "main"
  /\ error = "none"
  /\ passed = NotCalled
  /\ jobs = <<>>
  /\ waiting = <<>>
  /\ submittable = {}
  /\ todo = {}
  /\ qsub = <<>>
  /\ NoGraphRun
  /\ NoWait
  /\ NoScript

NextAlias ==
  \/ \E self \in Groups, given \in {"caller", Omitted} :
        JobGroup_init(self, given)
  \/ \E key \in ArgNames : caller_sets(key)
  \/ \E self \in Groups, key \in ArgNames : arguments_set(self, key)

SpecAlias == InitAlias /\ [][NextAlias]_vars

(**************************************************************************)
(* run_dependency_graph                                                   *)
(**************************************************************************)
\* the JobGroup objects of a job graph
GraphJobs == {"A", "B", "C", "D"}

\* the list of the jobs js, each once; list(set) is in no particular order
\* and nothing reads the order, so the model writes the job order
RECURSIVE ListOf(_)
ListOf(js) ==
  IF js = {} THEN <<>>
  ELSE LET j == CHOOSE j \in js : \A k \in js : JobOrder(j) <= JobOrder(k)
       IN  <<j>> \o ListOf(js \ {j})

\* the job graphs a caller has built with add_dependency: at most
\* MaxGraphEdges references, cycles and self-references among them
DependencyGraphs ==
  { [j \in GraphJobs |-> ListOf({e[2] : e \in {x \in es : x[1] = j}})] :
      es \in { es \in SUBSET (GraphJobs \X GraphJobs) :
                 Cardinality(es) <= MaxGraphEdges } }

\* the lists of root jobs a caller hands over
RootLists == { ListOf(js) : js \in { js \in SUBSET GraphJobs :
                                       Cardinality(js) <= MaxRoots } }

RECURSIVE populate_jobset(_, _, _)
RECURSIVE PopulateEach(_, _, _, _)
\* PopulateEach returning from inside the loop, after the first dependency
PopulateFirstOnly(deps, i, set, depth) ==
  IF i > Len(deps) THEN [raised |-> FALSE, jobset |-> set]
  ELSE populate_jobset(deps[i], set, depth + 1)

\* lines 181-183: the loop over job.dependencies, from position i on
PopulateEach(deps, i, set, depth) ==
  IF i > Len(deps) THEN [raised |-> FALSE, jobset |-> set]
  ELSE LET r == populate_jobset(deps[i], set, depth + 1)
       IN  IF r.raised THEN r ELSE PopulateEach(deps, i + 1, r.jobset, depth)

\* lines 174-183.  A call deeper than the interpreter's recursion limit
\* raises RuntimeError ("maximum recursion depth exceeded").
populate_jobset(job, set, depth) ==
  IF depth > RecursionLimit THEN [raised |-> TRUE, jobset |-> set]
  ELSE IF Len(dependencies[job]) = 0
       THEN [raised |-> FALSE, jobset |-> set \cup {job}]
       ELSE PopulateEach(dependencies[job], 1, set \cup {job}, depth)

RECURSIVE Flatten(_, _, _)
\* lines 133-135: populate_jobset for every job of the job graph, from
\* position i on
Flatten(roots, i, set) ==
  IF i > Len(roots) THEN [raised |-> FALSE, jobset |-> set]
  ELSE LET r == populate_jobset(roots[i], set, 1)
       IN  IF r.raised THEN r ELSE Flatten(roots, i + 1, r.jobset)

\* lines 133-136, the flattening returning
run_dependency_graph(graph, log) ==
  /\ pc = "main"
  /\ ~Flatten(graph, 1, {}).raised
  /\ jobgraph' = graph
  /\ logger' = log
  /\ caller' = "run_dependency_graph"
  /\ jobset' = Flatten(graph, 1, {}).jobset
  /\ joblist' = ListOf(jobset')
  /\ pc' = "log_jobs"
  /\ UNCHANGED <<dep_count, error>>
  /\ UNCHANGED <<jobVars, fsVars, submitVars, scriptVars, objVars, waitVars>>

\* lines 133-135, the flattening running out of stack
run_dependency_graph_overflow(graph, log) ==
  /\ pc = "main"
  /\ Flatten(graph, 1, {}).raised
  /\ jobgraph' = graph
  /\ logger' = log
  /\ caller' = "run_dependency_graph"
  /\ pc' = "raised"
  /\ error' = "RuntimeError"
  /\ UNCHANGED <<jobset, joblist, dep_count>>
  /\ UNCHANGED <<jobVars, fsVars, submitVars, scriptVars, objVars, waitVars>>

\* lines 139-148 with a logger: dep_count is the number of dependencies
log_jobs ==
  /\ pc = "log_jobs"
  /\ logger
  /\ dep_count' = SumLen(dependencies, Range(joblist))
  /\ pc' = "group_jobs"
  /\ UNCHANGED <<caller, jobgraph, logger, jobset, joblist, error>>
  /\ UNCHANGED <<jobVars, fsVars, submitVars, scriptVars, objVars, waitVars>>

\* lines 139-148 without a logger: line 148 calls logger.info on None
log_jobs_no_logger ==
  /\ pc = "log_jobs"
  /\ ~logger
  /\ pc' = "raised"
  /\ error' = "AttributeError"
  /\ UNCHANGED graphVars
  /\ UNCHANGED <<jobVars, fsVars, submitVars, scriptVars, objVars, waitVars>>

\* lines 152-155 with a job to group: a JobGroup has no split
group_jobs_split ==
  /\ pc = "group_jobs"
  /\ dep_count = 0
  /\ joblist # <<>>
  /\ pc' = "raised"
  /\ error' = "AttributeError"
  /\ UNCHANGED graphVars
  /\ UNCHANGED <<jobVars, fsVars, submitVars, scriptVars, objVars, waitVars>>

\* lines 152-158 with dependencies: line 153 is skipped, and line 158 reads
\* arglists
group_jobs_unbound ==
  /\ pc = "group_jobs"
  /\ dep_count # 0
  /\ pc' = "raised"
  /\ error' = "NameError"
  /\ UNCHANGED graphVars
  /\ UNCHANGED <<jobVars, fsVars, submitVars, scriptVars, objVars, waitVars>>

\* lines 152-168 with no job at all: joblist becomes jobgroups, which is
\* empty, and build_and_submit_jobs is called with it
group_jobs_none ==
  /\ pc = "group_jobs"
  /\ dep_count = 0
  /\ joblist = <<>>
  /\ joblist' = <<>>
  /\ passed' = ListOfJobs(joblist')
  /\ jobs' = AsList(passed')
  /\ pc' = "build_directories"
  /\ UNCHANGED <<caller, jobgraph, logger, jobset, dep_count, error>>
  /\ UNCHANGED <<jobVars, fsVars, waiting, submittable, todo, qsub>>
  /\ UNCHANGED <<scriptVars, objVars, waitVars>>

\* lines 170-171 with joblist empty: no wait is called
wait_jobs_none ==
  /\ pc = "wait_jobs"
  /\ joblist = <<>>
  /\ pc' = "returned"
  /\ UNCHANGED graphVars
  /\ UNCHANGED <<jobVars, fsVars, submitVars, scriptVars, objVars, waitVars, error>>

InitGraph ==
  /\ dependencies \in DependencyGraphs
  /\ submitted = [j \in GraphJobs |-> TRUE]
  /\ queue = [j \in GraphJobs |-> None]
  /\ scriptPath = {}
  /\ dirs = {}
  /\ files = {}
  /\ plain = {}
  /\ builds = 0
  /\ pc = "main"
  /\ error = "none"
  /\ passed = NotCalled
  /\ jobs = <<>>
  /\ waiting = <<>>
  /\ submittable = {}
  /\ todo = {}
  /\ qsub = <<>>
  /\ NoGraphRun
  /\ NoWait
  /\ NoScript
  /\ NoObjects

NextGraph ==
  \/ \E graph \in RootLists, log \in BOOLEAN :
        run_dependency_graph(graph, log)
  \/ \E graph \in RootLists, log \in BOOLEAN :
        run_dependency_graph_overflow(graph, log)
  \/ log_jobs
  \/ log_jobs_no_logger
  \/ group_jobs_split
  \/ group_jobs_unbound
  \/ group_jobs_none
  \/ build_directories
  \/ build_job_scripts
  \/ submit_jobs
  \/ submit_jobs_return
  \/ wait_jobs_none

SpecGraph == InitGraph /\ [][NextGraph]_vars

(**************************************************************************)
(* Properties of the generated script                                     *)
(**************************************************************************)
\* every name of the mapping has at least one value
AllNonEmpty(args) == \A i \in DOMAIN args : Len(args[i].values) >= 1

\* the cartesian product of the value lists: one value per name
Combinations(args) ==
  { [key \in {args[i].key : i \in DOMAIN args} |->
       LET i == CHOOSE i \in DOMAIN args : args[i].key = key
       IN  args[i].values[ix[i]]] :
    ix \in { f \in [DOMAIN args -> 1..MaxVals] :
               \A i \in DOMAIN args : f[i] <= Len(args[i].values) } }

\* the combinations the finished tasks ran the command with (results changes
\* only when a task ends, so the properties below look at it between tasks,
\* when no shell is running: shell.pc = 0)
Selected == { results[i].var : i \in DOMAIN results }

\* C3: when every name has at least one value, the task indices
\* 0 .. (product of the list lengths) - 1 decode one-to-one onto the cartesian
\* product of the value lists: there are as many task indices as
\* combinations, no combination is selected by two indices, every selection
\* is a combination, and once every index has run none is left out.
SweepCoversProductOnce ==
  (script # <<>> /\ shell.pc = 0 /\ AllNonEmpty(arguments)) =>
    /\ tasks = Cardinality(Combinations(arguments))
    /\ \A i \in DOMAIN results : results[i].id = i
    /\ Cardinality(Selected) = Len(results)
    /\ Selected \subseteq Combinations(arguments)
    /\ (Len(results) = tasks => Selected = Combinations(arguments))

\* every index of a 2 x 3 x 2 sweep has run
WitnessSweepCovered ==
  /\ Len(arguments) = 3
  /\ tasks = 12
  /\ Len(results) = 12

RECURSIVE Radix(_, _)
\* k_1 * ... * k_j for the first j names
Radix(args, j) == IF j = 0 THEN 1 ELSE Len(args[j].values) * Radix(args, j - 1)

KeysOf(op) ==
  LET Is(st) == st.op = op
      sts == SelectSeq(script, Is)
  IN  [i \in DOMAIN sts |-> sts[i].key]

\* C4: the decoding is the mixed-radix decomposition of SGE_TASK_ID - 1, the
\* first name the fastest-varying: the j-th name gets position
\* (index div (k_1 * ... * k_(j-1))) mod k_j and the value at that position;
\* {a:[1,2], b:[x,y,z]} decodes 0..5 to (1,x),(2,x),(1,y),(2,y),(1,z),(2,z);
\* and the decoding takes the names in the order of the array declarations.
MixedRadixDecoding ==
  (script # <<>> /\ shell.pc = 0 /\ AllNonEmpty(arguments)) =>
    /\ \A i \in DOMAIN results : \A j \in DOMAIN arguments :
         LET pos == ((results[i].id - 1) \div Radix(arguments, j - 1))
                      % Len(arguments[j].values)
         IN  /\ results[i].index[arguments[j].key] = pos
             /\ results[i].var[arguments[j].key] = arguments[j].values[pos + 1]
    /\ ( /\ Len(arguments) = 2
         /\ Len(arguments[1].values) = 2
         /\ Len(arguments[2].values) = 3 ) =>
          LET a == arguments[1]
              b == arguments[2]
              expected == << <<1, 1>>, <<2, 1>>, <<1, 2>>,
                             <<2, 2>>, <<1, 3>>, <<2, 3>> >>
          IN  \A i \in DOMAIN results :
                /\ results[i].var[a.key] = a.values[expected[i][1]]
                /\ results[i].var[b.key] = b.values[expected[i][2]]
    /\ KeysOf("let_index") = KeysOf("array")
    /\ KeysOf("array") = [j \in DOMAIN arguments |-> arguments[j].key]

\* the six tasks of {a:[1,2], b:[x,y,z]} have run
WitnessMixedRadix ==
  /\ Len(arguments) = 2
  /\ Len(arguments[1].values) = 2
  /\ Len(arguments[2].values) = 3
  /\ Len(results) = 6

\* C10: after generate_script the task count is the product of the lengths
\* of the value lists, and it is at least 1 for every mapping the
\* constructor accepts.
TaskCountIsProductAtLeastOne ==
  script # <<>> =>
    /\ tasks = Cardinality(Combinations(arguments))
    /\ tasks >= 1

\* C10, amended: after generate_script the task count is the product of the
\* lengths of the value lists (the number of combinations); it is at least 1
\* when every list has at least one value, 1 for the empty mapping, and 0
\* when some list is empty.
TaskCountIsProduct ==
  script # <<>> =>
    /\ tasks = Cardinality(Combinations(arguments))
    /\ AllNonEmpty(arguments) => tasks >= 1
    /\ arguments = <<>> => tasks = 1
    /\ ~AllNonEmpty(arguments) => tasks = 0

\* the script of a 2 x 3 x 3 sweep has been generated
WitnessTaskCount ==
  /\ script # <<>>
  /\ Len(arguments) = 3
  /\ tasks = 18

\* C11: the script of an empty mapping of arguments runs one task and is
\* the command alone: it computes no task index, declares no array, and
\* takes no remainder and no quotient.
EmptyArgumentsScriptIsCommandOnly ==
  (script # <<>> /\ arguments = <<>>) =>
    /\ tasks = 1
    /\ \A n \in DOMAIN script :
         script[n].op \notin {"let_task_id", "array", "let_index", "let_div"}
    /\ script = <<CommandLine>>

\* the mapping without its j-th name
Without(args, j) == SubSeq(args, 1, j - 1) \o SubSeq(args, j + 1, Len(args))

\* C19: a name with a single value is declared and decoded like any other:
\* the script holds its array and its decoding statements, every task
\* index selects position 0 and so the one value, the division by its
\* length leaves the remaining index as it was, and the task count is what
\* it is without the name; {a:[7]} has one task, which runs with a = 7.
SingleValueArgumentDecoded ==
  (script # <<>> /\ AllNonEmpty(arguments)) =>
    /\ \A j \in DOMAIN arguments :
         Len(arguments[j].values) = 1 =>
           LET key == arguments[j].key
           IN  /\ \E n \in DOMAIN script :
                    /\ script[n].op = "array"
                    /\ script[n].key = key
                    /\ script[n].values = arguments[j].values
               /\ \A op \in {"let_index", "select", "let_div"} :
                    \E n \in DOMAIN script :
                      script[n].op = op /\ script[n].key = key
               /\ tasks = Cardinality(Combinations(Without(arguments, j)))
               /\ \A i \in DOMAIN results :
                    /\ key \in DOMAIN results[i].index
                    /\ results[i].index[key] = 0
                    /\ key \in DOMAIN results[i].var
                    /\ results[i].var[key] = arguments[j].values[1]
    /\ ( /\ shell.pc \in DOMAIN script
         /\ script[shell.pc].op = "let_div"
         /\ script[shell.pc].count = 1 ) =>
          Exec(shell, script[shell.pc]).TASK_ID = shell.TASK_ID
    /\ arguments = <<Argument("a", 1)>> =>
         /\ tasks = 1
         /\ \A i \in DOMAIN results :
              /\ results[i].id = 1
              /\ results[i].index = ("a" :> 0)
              /\ results[i].var = ("a" :> Val("a", 0))

\* every index of a 2 x 1 x 3 sweep has run
WitnessSingleValueDecoded ==
  /\ Len(arguments) = 3
  /\ Len(arguments[1].values) = 2
  /\ Len(arguments[2].values) = 1
  /\ Len(arguments[3].values) = 3
  /\ Len(results) = 6

\* C21: a JobGroup's arguments are a mapping of its own: they hold the
\* names the JobGroup was constructed with and the names set through the
\* JobGroup itself, whatever the caller does to the mapping it passed and
\* whatever is set through another JobGroup, two JobGroups constructed
\* without arguments included.
ArgumentsAreOwnCopy ==
  \A g \in Groups : ref[g] # "None" => heap[ref[g]] = own[g]

\* C23: for every SGE_TASK_ID in 1 .. tasks, the position the script
\* computes for a name is one of 0 .. k - 1 for the k values of the name,
\* so that every array access finds an element, and the task index left
\* after the last name has been decoded is 0.
DecodedIndicesInBounds ==
  script # <<>> =>
    /\ shell.pc # 0 => shell.SGE_TASK_ID \in 1..tasks
    /\ ( /\ shell.pc \in DOMAIN script
         /\ script[shell.pc].op = "select" ) =>
          LET key == script[shell.pc].key
          IN  /\ key \in DOMAIN shell.INDEX
              /\ key \in DOMAIN shell.ARRAY
              /\ shell.INDEX[key] + 1 \in DOMAIN shell.ARRAY[key]
    /\ \A i \in DOMAIN results :
         /\ results[i].id \in 1..tasks
         /\ results[i].residual = 0
         /\ \A j \in DOMAIN arguments :
              LET key == arguments[j].key
              IN  /\ key \in DOMAIN results[i].index
                  /\ results[i].index[key] \in
                       0..(Len(arguments[j].values) - 1)
                  /\ key \in DOMAIN results[i].var
                  /\ results[i].var[key] \in Range(arguments[j].values)

\* the last task of a 3 x 2 sweep has run: positions 2 and 1, nothing left
WitnessLastTaskDecoded ==
  /\ Len(arguments) = 2
  /\ Len(arguments[1].values) = 3
  /\ Len(arguments[2].values) = 2
  /\ Len(results) = 6
  /\ results[6].index[arguments[1].key] = 2
  /\ results[6].index[arguments[2].key] = 1
  /\ results[6].residual = 0

(**************************************************************************)
(* Properties of the submission                                           *)
(**************************************************************************)
RECURSIVE Closure(_)
\* the jobs reachable from the jobs js along dependency references, js included
Closure(js) ==
  LET more == js \cup UNION { Range(dependencies[j]) : j \in js }
  IN  IF more = js THEN js ELSE Closure(more)

\* no job reachable from the jobs js depends, directly or through others,
\* on itself
Acyclic(js) ==
  \A j \in Closure(js) :
    Range(dependencies[j]) = {} \/ j \notin Closure(Range(dependencies[j]))

\* every dependency of a job of the list is in the list
DependenciesListed ==
  \A j \in Range(jobs) : Range(dependencies[j]) \subseteq Range(jobs)

\* C1: in a run of build_and_submit_jobs on an acyclic list of jobs whose
\* dependencies are all in the list, the qsub of a job comes only after the
\* qsub of every job it depends on.
DependenciesSubmittedFirst ==
  (Acyclic(Range(jobs)) /\ DependenciesListed) =>
    \A i \in DOMAIN qsub :
      \A d \in Range(dependencies[qsub[i].job]) :
        \E k \in 1..(i - 1) : qsub[k].job = d

\* C2: a job's submitted flag is false after construction, and true only if
\* a qsub for that job has been run and was accepted.
SubmittedOnlyAfterAcceptedQsub ==
  \A j \in DOMAIN submitted :
    submitted[j] => \E i \in DOMAIN qsub : qsub[i].job = j /\ qsub[i].accepted

\* C6: a list of jobs with a dependency cycle, or with a dependency that is
\* not in the list (the cases in which no waiting job can become
\* submittable), makes the submission stop with a configuration error: the
\* submission never returns as if it had succeeded.
UnresolvableGraphRejected ==
  pc = "returned" => (Acyclic(Range(jobs)) /\ DependenciesListed)

\* the jobs that job depends on, directly or through other jobs
DependsOn(job) == Closure(Range(dependencies[job]))

\* the jobs whose qsub was run and not accepted among the first n qsubs
Failed(n) == { qsub[i].job : i \in { i \in 1..n : ~qsub[i].accepted } }

\* C12: when the qsub of a job is not accepted, no job that depends on it,
\* directly or through other jobs, is submitted afterwards, and once the
\* submission has returned every job of the list that depends on no failed
\* job has been submitted.
FailedSubmissionHoldsBackDependents ==
  (Acyclic(Range(jobs)) /\ DependenciesListed) =>
    /\ \A k \in DOMAIN qsub : DependsOn(qsub[k].job) \cap Failed(k - 1) = {}
    /\ pc = "returned" =>
         \A j \in Range(jobs) :
           (DependsOn(j) \cap Failed(Len(qsub)) = {}) =>
             \E i \in DOMAIN qsub : qsub[i].job = j

\* C14: the qsub command of a job with dependencies holds -hold_jid followed
\* by the names of its dependencies, in their order, one name per reference
\* and no other name, with a comma between two names and none after the
\* last; the command of a job has no hold list exactly when the job has no
\* dependencies.
HoldListNamesDependencies ==
  \A i \in DOMAIN qsub :
    LET deps == dependencies[qsub[i].job]
        hold == qsub[i].hold
    IN  /\ (Len(deps) = 0) <=> (hold = <<>>)
        /\ Len(deps) > 0 =>
             /\ Len(hold) = 2 * Len(deps)
             /\ hold[1] = "-hold_jid "
             /\ \A n \in DOMAIN deps : hold[2 * n] = deps[n]
             /\ \A n \in 1..(Len(deps) - 1) : hold[2 * n + 1] = ","

\* a job that names one dependency twice and a job without dependencies
\* have both been submitted
WitnessHoldList ==
  /\ \E i \in DOMAIN qsub : qsub[i].hold = <<"-hold_jid ", "B", ",", "B">>
  /\ \E i \in DOMAIN qsub :
       qsub[i].hold = <<>> /\ dependencies[qsub[i].job] = <<>>

\* C16: build_directories on a root directory in which any of the four
\* subdirectories exist already, or which does not exist, does not fail,
\* however often it is called, and every call leaves the root directory
\* with exactly the four subdirectories.
BuildDirectoriesIdempotent ==
  plain = {} =>
    /\ pc # "raised"
    /\ error = "none"
    /\ builds >= 1 => dirs = {"root"} \cup Subdirectories

\* build_directories has been called twice on one root directory
WitnessBuiltTwice ==
  /\ plain = {}
  /\ builds = 2
  /\ dirs = {"root", "output", "stderr", "stdout", "jobs"}

\* C17: no wavefront of submit_jobs holds two jobs of which one depends on
\* the other, and when a wavefront is taken every job of the wavefronts
\* before it has been marked submitted.
WavefrontJobsIndependent ==
  pc = "submit_safe_jobs" =>
    /\ \A a, b \in submittable :
         a # b => b \notin Range(dependencies[a])
    /\ \A i \in DOMAIN qsub : submitted[qsub[i].job]

DirectoriesThenScriptsThenQsub ==
  /\ files # {} => ({"root"} \cup Subdirectories) \subseteq dirs
  /\ qsub # <<>> =>
       /\ Range(jobs) \subseteq files
       /\ Range(jobs) \subseteq scriptPath
  /\ passed.type = "JobGroup" => jobs = <<passed.value>>
  /\ passed.type = "list" => jobs = passed.value

\* a JobGroup passed on its own has been submitted
WitnessOneJobSubmitted ==
  /\ passed.type = "JobGroup"
  /\ \E i \in DOMAIN qsub : qsub[i].job = passed.value
  /\ passed.value \in files \cap scriptPath
  /\ "jobs" \in dirs

\* C22: on an acyclic list of jobs whose dependencies are all in the list,
\* every wavefront of submit_jobs takes at least one job off the waiting
\* list, so that the loop ends within as many iterations as there are jobs;
\* submit_jobs returns with the waiting list empty, and qsub has then been
\* run once, and never more than once, for every job of the list, also for
\* a job that is in the list more than once.
SubmitJobsOncePerJob ==
  (Acyclic(Range(jobs)) /\ DependenciesListed) =>
    /\ pc = "submit_safe_jobs" => submittable # {}
    /\ \A i, k \in DOMAIN qsub : qsub[i].job = qsub[k].job => i = k
    /\ pc = "returned" =>
         /\ waiting = <<>>
         /\ \A j \in Range(jobs) : \E i \in DOMAIN qsub : qsub[i].job = j

\* wait has ended, by returning or by raising
WaitEnded == awaited # {}

\* C8: wait returns only after a liveness check that does not find the job,
\* every check before it having found the job, and it does end by returning.
WaitReturnsWhenJobGone ==
  WaitEnded =>
    /\ error = "none"
    /\ Len(polls) >= 1
    /\ polls[Len(polls)] = "absent"
    /\ \A n \in 1..(Len(polls) - 1) : polls[n] = "live"

\* C15: a liveness check that fails because the scheduler cannot be reached
\* does not end wait: wait goes on to the next sleep of the same backoff and
\* checks again, and it returns only after a check that reports the job
\* absent.
UnreachableCheckDoesNotEndWait ==
  WaitEnded =>
    /\ error = "none"
    /\ Len(polls) >= 1
    /\ polls[Len(polls)] = "absent"
    /\ \A n \in DOMAIN polls :
         polls[n] = "unreachable" => (n < Len(polls) /\ n < Len(sleeps))

RECURSIVE Pow2(_)
Pow2(n) == IF n = 0 THEN 1 ELSE 2 * Pow2(n - 1)

Min(a, b) == IF a <= b THEN a ELSE b

\* C9: wait sleeps before every liveness check, 5 before the first and
\* min(5 * 2^(n-1), 60) before the n-th, and the interval is always between
\* 5 and 60.
BackoffSchedule ==
  awaited # {} =>
    /\ interval \in 5..60
    /\ Len(sleeps) >= 1
    /\ \A n \in DOMAIN sleeps : sleeps[n] = Min(5 * Pow2(n - 1), 60)

(**************************************************************************)
(* Properties of run_dependency_graph                                     *)
(**************************************************************************)
\* A depends on B and C, which both depend on D
Diamond ==
  /\ dependencies["A"] = <<"B", "C">>
  /\ dependencies["B"] = <<"D">>
  /\ dependencies["C"] = <<"D">>
  /\ dependencies["D"] = <<>>

\* C5: populate_jobset applied to every root yields exactly the jobs
\* reachable from a root along dependency references, the roots included,
\* each job once; the result is closed under dependencies, and the diamond
\* flattens to {A, B, C, D}.  The flattening of an acyclic graph returns.
FlattenedIsReachableSet ==
  /\ (caller = "run_dependency_graph" /\ Acyclic(Range(jobgraph))) =>
       error # "RuntimeError"
  /\ pc = "log_jobs" =>
    /\ jobset = Closure(Range(jobgraph))
    /\ Range(jobgraph) \subseteq jobset
    /\ \A j \in jobset : Range(dependencies[j]) \subseteq jobset
    /\ Range(joblist) = jobset
    /\ Len(joblist) = Cardinality(jobset)
    /\ (Diamond /\ jobgraph = <<"A">>) => jobset = {"A", "B", "C", "D"}

\* the diamond has been flattened from its root
WitnessDiamondFlattened ==
  /\ pc = "log_jobs"
  /\ Diamond
  /\ jobgraph = <<"A">>
  /\ jobset = {"A", "B", "C", "D"}

\* C7: run_dependency_graph, given a logger and an acyclic job graph,
\* submits every job of the flattened set and afterwards calls wait() on
\* every one of them: when it has ended, no job reachable from a root is
\* left without a qsub or without a wait.
RunSubmitsAndAwaitsAll ==
  ( /\ caller = "run_dependency_graph"
    /\ pc \in {"returned", "raised"}
    /\ logger
    /\ Acyclic(Range(jobgraph)) ) =>
    \A j \in Closure(Range(jobgraph)) :
      /\ \E i \in DOMAIN qsub : qsub[i].job = j
      /\ j \in awaited

\* C13: the flattening of a job graph in which a job reachable from a root
\* depends on itself, directly or through other jobs, ends by rejecting the
\* graph with a configuration error, and no flattening runs out of stack.
CyclicGraphRejected ==
  /\ error # "RuntimeError"
  /\ (caller = "run_dependency_graph" /\ ~Acyclic(Range(jobgraph))) =>
       (pc = "raised" /\ error = "ConfigurationError")

=============================================================================
